---- MODULE Spec2Model ----
(***************************************************************************)
(* MeshDD: the mask classifiers and the difference-shell construction of   *)
(* src/src/meshdd.py, as a state machine.                                  *)
(*                                                                         *)
(* Arrays keep numpy's 0-based indexing: an array of m rows is a function  *)
(* with domain 0..m-1.  A vertex is a function Axes -> Int, a face is a    *)
(* function Corners -> vertex id.  Coordinates and tolerances are exact    *)
(* integers (multiples of one length unit): float rounding is not          *)
(* modelled, the comparisons of numpy.isclose are.                         *)
(***************************************************************************)
EXTENDS Integers, FiniteSets, TLC

VARIABLES
    verticesA,      \* (n, d) argument of get_boolean_difference
    verticesB,      \* (n, d) argument of get_boolean_difference
    faces,          \* (m, k) face array, argument of every function
    mask_arg,       \* the vertices_mask / mask argument: a mask, None or True
    directions,     \* (n, d) argument of displace_vertices
    length,         \* length argument of displace_vertices, an n-d array
    rtol,           \* relative tolerance argument
    atol,           \* absolute tolerance argument
    pc,             \* position in the call
    vertices_mask,  \* get_boolean_difference's local mask (after line 198)
    faces_mask,     \* local of get_boolean_difference (line 202)
    border_faces_mask,              \* local (line 206)
    outside_border_vertices_mask,   \* local (line 210)
    vertices_id_map,                \* the shared remap table (line 219)
    diff_vertices,  \* output vertex array
    diff_faces,     \* output face array
    ret,            \* what a stand-alone classifier call returned
    returned_in,    \* the buffers that hold the arrays a call returned
    Nphi,           \* argument of create_sphere
    Ntheta,         \* argument of create_sphere
    calls,          \* two calls of get_boolean_difference in flight
    tables          \* the remap tables of the calls in flight

vars == <<verticesA, verticesB, faces, mask_arg, directions, length, rtol, atol,
          pc, vertices_mask,
          faces_mask, border_faces_mask, outside_border_vertices_mask,
          vertices_id_map, diff_vertices, diff_faces, ret, returned_in,
          Nphi, Ntheta, calls, tables>>

\* The arguments other than the vertex mask.
inputs_but_mask == <<verticesA, verticesB, faces, directions, length, rtol,
                     atol, Nphi, Ntheta>>

inputs == <<inputs_but_mask, mask_arg>>

\* The state of the two calls in flight.
pair == <<calls, tables>>

locals == <<vertices_mask, faces_mask, border_faces_mask,
            outside_border_vertices_mask, vertices_id_map, diff_vertices,
            diff_faces>>

----------------------------------------------------------------------------
(* Bounds of the model. *)

\* Vertices of the exhaustively enumerated meshes.
NV == 3
\* Faces of the exhaustively enumerated meshes.
MaxFaces == 1
\* Coordinates of the tolerance scenarios range over 0..MaxCoord.
MaxCoord == 2
\* atol ranges over 0..MaxAtol length units.
MaxAtol == 1
\* rtol ranges over 0..MaxRtol (a whole factor, so that rtol*|b| is exact).
MaxRtol == 1

\* create_sphere is called with Nphi in 3..MaxNphi and Ntheta in 3..MaxNtheta.
MaxNphi == 5
MaxNtheta == 5

\* Coordinate axes of a vertex: verticesA.shape[1] = 2.
Axes == {0, 1}
\* Positions within a face: faces.shape[1] = 3 (triangles).
Corners == {0, 1, 2}
\* faces.shape[1]
arity == Cardinality(Corners)
\* Python's None, where an array may stand: no array has this domain.
None == [x \in {-1} |-> FALSE]
\* Python's True, where a mask may stand (the default of displace_vertices).
MaskTrue == [x \in {-3} |-> TRUE]
\* What a call that raises IndexError yields.
IndexError == [x \in {-4} |-> FALSE]
\* No stand-alone call has returned.
NoReturn == [fn |-> "None", flag |-> FALSE, value |-> None]
\* A row of an np.empty array that no statement has written yet: its cells
\* are indeterminate, and reading one is an evaluation error.
Uninit == [x \in {-2} |-> FALSE]

----------------------------------------------------------------------------
(* numpy helpers. *)

Abs(x) == IF x < 0 THEN -x ELSE x

\* len(a)
Len(a) == Cardinality(DOMAIN a)

\* mask.sum()
MaskSum(mask) == Cardinality({i \in DOMAIN mask : mask[i]})

\* Number of true entries of mask before position i.
Rank(mask, i) == Cardinality({h \in DOMAIN mask : h < i /\ mask[h]})

\* An integer index into an axis of len entries is accepted in -len..len-1;
\* anything else is numpy's IndexError.
Indexable(len, i) == 0 - len <= i /\ i < len

\* arr[i] for an integer i: a negative index counts from the end.
Take(arr, i) == arr[IF i < 0 THEN i + Len(arr) ELSE i]

\* Whether arr[fcs] (an integer-array index) is accepted.
FacesIndexable(fcs, arr) ==
    \A f \in DOMAIN fcs : \A j \in DOMAIN fcs[f] : Indexable(Len(arr), fcs[f][j])

\* Whether arr[mask] (a boolean index) is accepted: the mask is as long as the
\* array; anything else is numpy's IndexError.
MaskFits(arr, mask) == Len(arr) = Len(mask)

\* arr.shape[1] of a 2-d array that has rows.
ColsOf(arr) == Len(arr[0])

\* Row i and cell j of an operand of a broadcast: an extent of 1 is repeated.
Row(arr, i) == arr[IF Len(arr) = 1 THEN 0 ELSE i]
Cell(row, j) == row[IF Len(row) = 1 THEN 0 ELSE j]

\* Whether two 2-d arrays broadcast against each other (else ValueError).
ArraysBroadcastable(a, b) ==
    /\ Len(a) = Len(b) \/ Len(a) = 1 \/ Len(b) = 1
    /\ ColsOf(a) = ColsOf(b) \/ ColsOf(a) = 1 \/ ColsOf(b) = 1

\* The rows and the columns of the broadcast of two 2-d arrays.
BroadcastRows(a, b) == IF Len(a) >= Len(b) THEN DOMAIN a ELSE DOMAIN b
BroadcastCols(a, b) ==
    IF ColsOf(a) >= ColsOf(b) THEN DOMAIN a[0] ELSE DOMAIN b[0]

\* Whether "arr[start:stop] = src[mask]" is accepted column-wise: src as wide
\* as the array (cols columns), or one column broadcast; the widths are
\* compared even when no row is selected.
ColsFit(cols, src) == ColsOf(src) = cols \/ ColsOf(src) = 1

\* rows as "arr[start:stop] = rows" writes them into cols columns.
Widen(cols, rows) ==
    [r \in DOMAIN rows |-> [j \in 0..(cols - 1) |-> Cell(rows[r], j)]]

\* arr[mask]: the rows of arr where mask is true, in increasing index order.
Compress(arr, mask) ==
    [r \in 0..(MaskSum(mask) - 1) |->
        arr[CHOOSE i \in DOMAIN mask : mask[i] /\ Rank(mask, i) = r]]

\* np.arange(c)
arange(c) == [i \in 0..(c - 1) |-> i]

\* Mutant: every true entry receives the first row.
Scatter_first(arr, mask, rows) ==
    [i \in DOMAIN arr |-> IF mask[i] THEN rows[0] ELSE arr[i]]

\* arr[mask] = rows (boolean-mask scatter; rows has mask.sum() rows).
Scatter(arr, mask, rows) ==
    [i \in DOMAIN arr |-> IF mask[i] THEN rows[Rank(mask, i)] ELSE arr[i]]

\* Mutant: a[-c:] starts one row early.
NegStart_early(len, c) == IF c = 0 THEN 0 ELSE IF len - c - 1 < 0 THEN 0 ELSE len - c - 1

\* Start of the slice a[-c:] of an array of len rows: -0 is 0, the whole array.
NegStart(len, c) == IF c = 0 THEN 0 ELSE IF len - c < 0 THEN 0 ELSE len - c

\* Stop of the slice a[:stop] clipped to the array.
Clip(len, stop) == IF stop > len THEN len ELSE IF stop < 0 THEN 0 ELSE stop

\* Whether "arr[start:stop] = rows" is accepted: equal row counts, or one row
\* broadcast; anything else is numpy's ValueError.
SliceFits(arr, start, stop, rows) ==
    LET cnt == IF Clip(Len(arr), stop) > start
               THEN Clip(Len(arr), stop) - start ELSE 0
    IN  Len(rows) = cnt \/ Len(rows) = 1

\* arr[start:stop] = rows
SliceAssign(arr, start, stop, rows) ==
    [i \in DOMAIN arr |->
        IF start <= i /\ i < Clip(Len(arr), stop)
        THEN (IF Len(rows) = 1 THEN rows[0] ELSE rows[i - start])
        ELSE arr[i]]

\* Mutants of isclose: a strict comparison; a tolerance relative to a.
isclose_strict(a, b, rt, at) == Abs(a - b) < at + rt * Abs(b)
isclose_rel_a(a, b, rt, at) == Abs(a - b) <= at + rt * Abs(a)

\* numpy.isclose(a, b, rtol, atol) on finite scalars.
isclose(a, b, rt, at) == Abs(a - b) <= at + rt * Abs(b)

----------------------------------------------------------------------------
(* numpy arrays of any rank, and broadcasting: an array is its shape (a     *)
(* tuple) and its cells, indexed by tuples of 0-based positions.           *)

Nd(shape, at) == [shape |-> shape, at |-> at]

\* What an operation that raises ValueError yields.
ValueError == Nd(<<-1>>, <<>>)
\* No array (an argument that is not passed).
NoArray == Nd(<<-2>>, <<>>)

\* The largest extent of a shape (1 for a scalar).
MaxExtent(shape) ==
    IF shape = <<>> THEN 1
    ELSE CHOOSE m \in {shape[k] : k \in DOMAIN shape} :
            \A k \in DOMAIN shape : shape[k] <= m

\* Every index tuple of an array of this shape.
Indices(shape) ==
    {t \in [DOMAIN shape -> 0..(MaxExtent(shape) - 1)] :
        \A k \in DOMAIN shape : t[k] < shape[k]}

\* A shape padded on the left with 1s to rank r.
Pad(shape, r) ==
    [k \in 1..r |-> IF k <= r - Len(shape) THEN 1 ELSE shape[k - (r - Len(shape))]]

BroadcastRank(s1, s2) == IF Len(s1) > Len(s2) THEN Len(s1) ELSE Len(s2)

\* numpy's rule: aligned from the right, extents are equal or one of them is 1.
Broadcastable(s1, s2) ==
    LET r == BroadcastRank(s1, s2)
    IN  \A k \in 1..r :
            \/ Pad(s1, r)[k] = Pad(s2, r)[k]
            \/ Pad(s1, r)[k] = 1
            \/ Pad(s2, r)[k] = 1

BroadcastShape(s1, s2) ==
    LET r == BroadcastRank(s1, s2)
    IN  [k \in 1..r |-> IF Pad(s1, r)[k] = 1 THEN Pad(s2, r)[k] ELSE Pad(s1, r)[k]]

\* The cell of an array of this shape that index t of the broadcast result reads.
Project(t, shape) ==
    [k \in DOMAIN shape |->
        IF shape[k] = 1 THEN 0 ELSE t[k + (Len(t) - Len(shape))]]

\* x and y broadcast against each other: the pairs of cells an element-wise
\* operation combines, or ValueError.
Paired(x, y) ==
    IF x = ValueError \/ y = ValueError \/ ~Broadcastable(x.shape, y.shape)
    THEN ValueError
    ELSE LET shape == BroadcastShape(x.shape, y.shape)
         IN  Nd(shape, [t \in Indices(shape) |->
                    <<x.at[Project(t, x.shape)], y.at[Project(t, y.shape)]>>])

\* x * y
Multiply(x, y) ==
    LET p == Paired(x, y)
    IN  IF p = ValueError THEN ValueError
        ELSE Nd(p.shape, [t \in DOMAIN p.at |-> p.at[t][1] * p.at[t][2]])

\* x + y
Add(x, y) ==
    LET p == Paired(x, y)
    IN  IF p = ValueError THEN ValueError
        ELSE Nd(p.shape, [t \in DOMAIN p.at |-> p.at[t][1] + p.at[t][2]])

\* np.atleast_1d(x)
atleast_1d(x) ==
    IF x = ValueError THEN ValueError
    ELSE IF Len(x.shape) = 0
    THEN Nd(<<1>>, [t \in Indices(<<1>>) |-> x.at[<<>>]])
    ELSE x

\* x[:, None]: a new axis of extent 1 after the first.
NewAxis(x) ==
    IF x = ValueError THEN ValueError
    ELSE LET shape == [k \in 1..(Len(x.shape) + 1) |->
                        IF k = 1 THEN x.shape[1]
                        ELSE IF k = 2 THEN 1 ELSE x.shape[k - 1]]
         IN  Nd(shape, [t \in Indices(shape) |->
                    x.at[[k \in DOMAIN x.shape |->
                            IF k = 1 THEN t[1] ELSE t[k + 1]]]])

\* A Python scalar, a 1-d array and a 2-d array (rows of Axes) as n-d arrays.
Scalar(v) == Nd(<<>>, [t \in Indices(<<>>) |-> v])
Array1(vec) == Nd(<<Len(vec)>>, [t \in Indices(<<Len(vec)>>) |-> vec[t[1]]])
Array2(arr) ==
    Nd(<<Len(arr), Cardinality(Axes)>>,
       [t \in Indices(<<Len(arr), Cardinality(Axes)>>) |-> arr[t[1]][t[2]]])

\* A boolean mask (or True) as numpy multiplies it: True is 1, False is 0.
MaskArray(mask) ==
    IF mask = MaskTrue THEN Scalar(1)
    ELSE Array1([i \in DOMAIN mask |-> IF mask[i] THEN 1 ELSE 0])

----------------------------------------------------------------------------
(* The functions of meshdd.py. *)

\* Line 46, on arrays of any shape:
\* vertices + np.atleast_1d(length * mask)[:, None] * directions
displace_vertices_nd(vertices, dirs, len, mask) ==
    Add(vertices, Multiply(NewAxis(atleast_1d(Multiply(len, mask))), dirs))

\* Mutant: the mask is ignored, every vertex is displaced.
displace_vertices_unmasked(vertices, dirs, len, mask) ==
    [i \in DOMAIN vertices |->
        [j \in Axes |-> vertices[i][j] + len * dirs[i][j]]]

\* displace_vertices with a scalar length and a per-vertex mask.
displace_vertices(vertices, dirs, len, mask) ==
    [i \in DOMAIN vertices |->
        [j \in Axes |->
            vertices[i][j]
              + (len * (IF mask[i] THEN 1 ELSE 0)) * dirs[i][j]]]

\* vertices_mask[faces].sum(axis=1) for face f.
inside_vertices_count(fcs, vmask, f) ==
    Cardinality({j \in Corners : Take(vmask, fcs[f][j])})

\* Mutant: a face with no masked vertex counts as a border face.
get_border_faces_mask_nolow(fcs, vmask) ==
    [f \in DOMAIN fcs |-> inside_vertices_count(fcs, vmask, f) < arity]

\* Mutant: a fully masked face counts as a border face.
get_border_faces_mask_le(fcs, vmask) ==
    [f \in DOMAIN fcs |->
        0 < inside_vertices_count(fcs, vmask, f)
        /\ inside_vertices_count(fcs, vmask, f) <= arity]

get_border_faces_mask(fcs, vmask) ==
    [f \in DOMAIN fcs |->
        0 < inside_vertices_count(fcs, vmask, f)
        /\ inside_vertices_count(fcs, vmask, f) < arity]

\* Mutant: the border flag is ignored.
get_inside_faces_mask_all(fcs, vmask, border) ==
    [f \in DOMAIN fcs |-> \A j \in Corners : Take(vmask, fcs[f][j])]

get_inside_faces_mask(fcs, vmask, border) ==
    IF border
    THEN [f \in DOMAIN fcs |-> \E j \in Corners : Take(vmask, fcs[f][j])]
    ELSE [f \in DOMAIN fcs |-> \A j \in Corners : Take(vmask, fcs[f][j])]

\* Mutant: the outside variant keeps every vertex of the border faces.
border_vertices_id_unfiltered(fcs, vmask, bfmask, outside) ==
    {fcs[p[1]][p[2]] : p \in
        {q \in (DOMAIN fcs) \X Corners :
            /\ bfmask[q[1]]
            /\ (outside \/ Take(vmask, fcs[q[1]][q[2]]))}}

\* border_faces[...]: the ids, over the border faces, of the vertices on the
\* chosen side of the mask.
border_vertices_id(fcs, vmask, bfmask, outside) ==
    {fcs[p[1]][p[2]] : p \in
        {q \in (DOMAIN fcs) \X Corners :
            /\ bfmask[q[1]]
            /\ IF outside THEN ~Take(vmask, fcs[q[1]][q[2]])
                          ELSE Take(vmask, fcs[q[1]][q[2]])}}

\* arr[ids] = True for a set of integer ids (negative ids count from the end).
ScatterTrue(arr, ids) ==
    [v \in DOMAIN arr |->
        arr[v] \/ \E id \in ids : v = (IF id < 0 THEN id + Len(arr) ELSE id)]

\* Mutant: the outside flag is ignored.
get_border_vertices_mask_inside(fcs, vmask, bfmask, outside) ==
    LET bfm == IF bfmask = None THEN get_border_faces_mask(fcs, vmask)
               ELSE bfmask
    IN  ScatterTrue([v \in DOMAIN vmask |-> FALSE],
                    border_vertices_id(fcs, vmask, bfm, FALSE))

get_border_vertices_mask(fcs, vmask, bfmask, outside) ==
    LET bfm == IF bfmask = None THEN get_border_faces_mask(fcs, vmask)
               ELSE bfmask
    IN  ScatterTrue([v \in DOMAIN vmask |-> FALSE],
                    border_vertices_id(fcs, vmask, bfm, outside))

\* Mutant: the logical_not is missing.
difference_mask_close(vA, vB, rt, at) ==
    [i \in BroadcastRows(vA, vB) |->
        \A j \in BroadcastCols(vA, vB) :
            isclose(Cell(Row(vA, i), j), Cell(Row(vB, i), j), rt, at)]

\* The mask get_boolean_difference derives when vertices_mask is None.
difference_mask(vA, vB, rt, at) ==
    [i \in BroadcastRows(vA, vB) |->
        ~(\A j \in BroadcastCols(vA, vB) :
            isclose(Cell(Row(vA, i), j), Cell(Row(vB, i), j), rt, at))]


----------------------------------------------------------------------------
(* The locals of get_boolean_difference that are counts (lines 199-211). *)

vertices_cnt == MaskSum(vertices_mask)
faces_cnt == MaskSum(faces_mask)
border_faces_cnt == MaskSum(border_faces_mask)
outside_border_vertices_cnt == MaskSum(outside_border_vertices_mask)

\* Mutant: the back faces are not flipped.
SelectedFaces_unflipped(reversed) == Compress(faces, faces_mask)

\* faces[faces_mask, :] and faces[faces_mask, ::-1]
SelectedFaces(reversed) ==
    LET sel == Compress(faces, faces_mask)
    IN  [f \in DOMAIN sel |->
            [j \in Corners |->
                IF reversed THEN sel[f][arity - 1 - j]
                            ELSE sel[f][j]]]

\* Mutant: the face rows are copied without the remap table.
Remap_identity(table, rows) ==
    [f \in DOMAIN rows |-> [j \in Corners |-> rows[f][j]]]

\* vertices_id_map[face_rows]: the gather through the remap table.
Remap(table, rows) ==
    [f \in DOMAIN rows |-> [j \in Corners |-> Take(table, rows[f][j])]]

----------------------------------------------------------------------------
(* Which buffer holds an array: a buffer no argument lives in, or the buffer *)
(* of an argument (named after the parameter).                              *)

Fresh == "fresh"

\* Mutant: the mask is built in the buffer of the array it is shaped after.
full_like_buffer_inplace(src) == src

\* np.full_like(src, False) (line 164) allocates.
full_like_buffer(src) == Fresh

\* An arithmetic, comparison or reduction result (lines 46, 95, 120, 122) is
\* a new array.
ufunc_buffer(src) == Fresh

\* np.empty (lines 214-215, shapes.py line 49) allocates.
empty_buffer == Fresh

----------------------------------------------------------------------------
(* Inputs. *)

Vertex(x, y) == [j \in Axes |-> IF j = 0 THEN x ELSE y]
Face(a, b, c) == [j \in Corners |-> IF j = 0 THEN a ELSE IF j = 1 THEN b ELSE c]

\* The faces over n vertices, degenerate ones included, written from their
\* smallest corner: every face is a rotation of one of these, and no step
\* depends on which corner of a face comes first.
FacesFromSmallest(n) ==
    {f \in [Corners -> 0..(n - 1)] : \A j \in Corners : f[0] <= f[j]}

\* Every array of at most MaxFaces such faces.
FaceArrays(n) ==
    UNION {[0..(m - 1) -> FacesFromSmallest(n)] : m \in 0..MaxFaces}

\* The unit tetrahedron: 4 vertices, 4 triangles, closed and oriented.
Tetrahedron ==
    [n |-> 4,
     faces |-> [f \in 0..3 |->
        IF f = 0 THEN Face(0, 1, 2) ELSE IF f = 1 THEN Face(0, 3, 1)
        ELSE IF f = 2 THEN Face(0, 2, 3) ELSE Face(1, 3, 2)]]

\* A flat quad of 2 triangles sharing the edge 0-2.
Quad ==
    [n |-> 4,
     faces |-> [f \in 0..1 |-> IF f = 0 THEN Face(0, 1, 2) ELSE Face(0, 2, 3)]]

\* Two triangles that share only vertex 2.
Bowtie ==
    [n |-> 5,
     faces |-> [f \in 0..1 |-> IF f = 0 THEN Face(0, 1, 2) ELSE Face(2, 3, 4)]]

\* One degenerate triangle on two vertices.
Sliver ==
    [n |-> 2, faces |-> [f \in 0..0 |-> Face(0, 1, 1)]]

\* A face array from its rows, written as tuples.
FaceRows(rows) ==
    [f \in 0..(Len(rows) - 1) |-> [j \in Corners |-> rows[f + 1][j + 1]]]

\* The octahedron: 6 vertices (0/1 on x, 2/3 on y, 4/5 on z), 8 triangles,
\* closed and oriented.
Octahedron ==
    [n |-> 6,
     faces |-> FaceRows(<< <<0, 2, 4>>, <<2, 1, 4>>, <<1, 3, 4>>, <<3, 0, 4>>,
                           <<2, 0, 5>>, <<1, 2, 5>>, <<3, 1, 5>>, <<0, 3, 5>> >>)]

\* One triangle and its reverse: the smallest closed oriented face array.
Pillow == [n |-> 3, faces |-> FaceRows(<< <<0, 1, 2>>, <<0, 2, 1>> >>)]

Meshes ==
    {[n |-> NV, faces |-> fa] : fa \in FaceArrays(NV)}
        \cup {Tetrahedron, Quad, Bowtie, Octahedron, Pillow}

\* Vertex i of the undisplaced mesh sits at (i, 0).
BaseVertices(n) == [i \in 0..(n - 1) |-> Vertex(i, 0)]
\* Every vertex is displaced along (0, 1).
BaseNormals(n) == [i \in 0..(n - 1) |-> Vertex(0, 1)]

Coord == 0..MaxCoord
VertexArrays(n) == [0..(n - 1) -> [Axes -> Coord]]

NoLocals ==
    /\ vertices_mask = None
    /\ faces_mask = None
    /\ border_faces_mask = None
    /\ outside_border_vertices_mask = None
    /\ vertices_id_map = None
    /\ diff_vertices = None
    /\ diff_faces = None

\* The callers' use (tools/bicolor_mesh.py): a mesh, a mask chosen from a
\* texture, verticesB = displace_vertices(verticesA, normals, length, mask).
InitMasked ==
    \E mesh \in Meshes :
        \E m \in [0..(mesh.n - 1) -> BOOLEAN] :
            /\ faces = mesh.faces
            /\ mask_arg = m
            /\ verticesA = BaseVertices(mesh.n)
            /\ verticesB = displace_vertices(BaseVertices(mesh.n),
                                             BaseNormals(mesh.n), 1, m)
            /\ directions = BaseNormals(mesh.n)
            /\ length = Scalar(1)
            /\ rtol = 0
            /\ atol = 0

\* vertices_mask omitted, verticesA equal to verticesB.
InitIdentical ==
    \E mesh \in Meshes :
        /\ faces = mesh.faces
        /\ mask_arg = None
        /\ verticesA = BaseVertices(mesh.n)
        /\ verticesB = BaseVertices(mesh.n)
        /\ directions = None
        /\ length = NoArray
        /\ rtol \in 0..MaxRtol
        /\ atol \in 0..MaxAtol

\* vertices_mask omitted, on the sliver: vertex 0 has every pair of positions
\* in A and B, vertex 1 starts at the origin and has every position in B.
InitTolerance ==
    /\ faces = Sliver.faces
    /\ mask_arg = None
    /\ verticesA \in {va \in VertexArrays(Sliver.n) : va[1] = Vertex(0, 0)}
    /\ verticesB \in VertexArrays(Sliver.n)
    /\ directions = None
    /\ length = NoArray
    /\ rtol \in 0..MaxRtol
    /\ atol \in 0..MaxAtol

\* The lengths displace_vertices documents: a scalar, (n) and (n, d).
LengthValues == {-1, 2}
Lengths(n) ==
    {Scalar(v) : v \in LengthValues}
        \cup {Array1(vec) : vec \in [0..(n - 1) -> LengthValues]}
        \cup {Array2(arr) : arr \in [0..(n - 1) -> [Axes -> LengthValues]]}

\* Directions that differ from vertex to vertex and from axis to axis.
SkewDirections(n) == [i \in 0..(n - 1) |-> Vertex(i + 1, 0 - i - 2)]

\* A call of displace_vertices on its own: n vertices, a documented length,
\* the default mask True or a per-vertex mask.
InitDisplace ==
    \E n \in Cardinality(Axes)..NV :
        /\ verticesA = BaseVertices(n)
        /\ directions = SkewDirections(n)
        /\ length \in Lengths(n)
        /\ mask_arg \in {MaskTrue} \cup [0..(n - 1) -> BOOLEAN]
        /\ verticesB = None
        /\ faces = None
        /\ rtol = 0
        /\ atol = 0

\* The face array of a mesh with the entry at face f, corner j replaced by x.
Corrupt(mesh, f, j, x) ==
    [g \in DOMAIN mesh.faces |->
        [k \in Corners |-> IF g = f /\ k = j THEN x ELSE mesh.faces[g][k]]]

\* The indices next to the valid range 0..n-1 on both sides: n, the negative
\* indices numpy accepts (-n..-1), and -n-1.
StrayIndices(n) == ((0 - n - 1)..(0 - 1)) \cup {n}

\* The quad with one face entry out of 0..n-1, and every mask.
InitOutOfRange ==
    \E f \in DOMAIN Quad.faces, j \in Corners, x \in StrayIndices(Quad.n) :
        \E m \in [0..(Quad.n - 1) -> BOOLEAN] :
            /\ faces = Corrupt(Quad, f, j, x)
            /\ mask_arg = m
            /\ verticesA = BaseVertices(Quad.n)
            /\ verticesB = displace_vertices(BaseVertices(Quad.n),
                                             BaseNormals(Quad.n), 1, m)
            /\ directions = BaseNormals(Quad.n)
            /\ length = Scalar(1)
            /\ rtol = 0
            /\ atol = 0

\* The sliver with a mask given and every verticesB, related to the mask or
\* not.
InitAnyB ==
    /\ faces = Sliver.faces
    /\ mask_arg \in [0..(Sliver.n - 1) -> BOOLEAN]
    /\ verticesA = BaseVertices(Sliver.n)
    /\ verticesB \in VertexArrays(Sliver.n)
    /\ directions = None
    /\ length = NoArray
    /\ rtol = 0
    /\ atol = 0

\* One triangle on 4 vertices: vertex 3 is on no face.
Flap == [n |-> 4, faces |-> [f \in 0..0 |-> Face(0, 1, 2)]]

\* A vertex array of any shape: vertex i at (i, 1, 1, ...).
Grid(rows, cols) ==
    [i \in 0..(rows - 1) |-> [j \in 0..(cols - 1) |-> IF j = 0 THEN i ELSE 1]]

\* Lengths and widths next to the right ones, and 1 (which broadcasts).
NearLengths(n) == {1, n - 1, n, n + 1}
NearWidths == {1, Cardinality(Axes), Cardinality(Axes) + 1}

\* The flap with a mask and a verticesB of every nearby shape.
InitMismatch ==
    \E rows \in NearLengths(Flap.n), cols \in NearWidths :
        \E len \in NearLengths(Flap.n) \ {1} :
            /\ faces = Flap.faces
            /\ mask_arg \in {None} \cup [0..(len - 1) -> BOOLEAN]
            /\ verticesA = BaseVertices(Flap.n)
            /\ verticesB = Grid(rows, cols)
            /\ directions = None
            /\ length = NoArray
            /\ rtol = 0
            /\ atol = 0

\* A call of create_sphere.
InitSphere ==
    /\ Nphi \in 3..MaxNphi
    /\ Ntheta \in 3..MaxNtheta
    /\ verticesA = None
    /\ verticesB = None
    /\ faces = None
    /\ mask_arg = None
    /\ directions = None
    /\ length = NoArray
    /\ rtol = 0
    /\ atol = 0

\* No call of create_sphere.
NoSphere == Nphi = 0 /\ Ntheta = 0

\* No two calls in flight.
NoPair == calls = [running |-> 0, frames |-> <<>>] /\ tables = <<>>

Init ==
    /\ \/ (InitMasked \/ InitIdentical \/ InitTolerance \/ InitOutOfRange
                \/ InitMismatch \/ InitAnyB)
            /\ pc = "start"
            /\ NoSphere
       \/ InitDisplace /\ pc = "displace" /\ NoSphere
       \/ InitSphere /\ pc = "sphere"
    /\ ret = NoReturn
    /\ returned_in = {}
    /\ NoLocals
    /\ NoPair


----------------------------------------------------------------------------
(* get_boolean_difference, step by step. *)

\* Line 214: rows of diff_vertices.  The mutant counts the masked vertices once.
diff_vertices_rows_once(obvm, vm) == MaskSum(obvm) + MaskSum(vm)
diff_vertices_rows(obvm, vm) == MaskSum(obvm) + 2 * MaskSum(vm)

\* Line 215: rows of diff_faces.  The mutant counts the selected faces once.
diff_faces_rows_once(fm) == MaskSum(fm)
diff_faces_rows(fm) == 2 * MaskSum(fm)

\* np.empty((rows, cols)): rows that hold nothing yet.
empty(rows) == [r \in 0..(rows - 1) |-> Uninit]

----------------------------------------------------------------------------
(* create_sphere of tools/shapes.py: the sizes and the triangles. *)

\* np.linspace(0, 2*np.pi, Nphi+1)[:-1].size
phi_size(Np) == Np
\* np.linspace(-np.pi/2, np.pi/2, Ntheta)[1:-1].size
theta_size(Nt) == IF Nt >= 2 THEN Nt - 2 ELSE 0

\* Lines 32-33.
num_vertices(Np, Nt) == phi_size(Np) * theta_size(Nt) + 2
num_triangles(Np, Nt) ==
    2 * phi_size(Np) + 2 * phi_size(Np) * (theta_size(Nt) - 1)

\* triangle_archetype + np.arange(cnt).reshape(-1, 1)
ArchetypeRows(arch, cnt) ==
    [k \in 0..(cnt - 1) |-> [j \in Corners |-> arch[j] + k]]

\* The rows of the slice start:stop:step of an array of len rows.
RowRange(len, start, stop, step) ==
    {i \in 0..(len - 1) :
        start <= i /\ i < Clip(len, stop) /\ (i - start) % step = 0}

\* numpy's ValueError for rows that cannot be broadcast into a slice.
BroadcastError == [x \in {-5} |-> FALSE]

\* arr[start:stop, :] = rows, or the ValueError; no statement follows one.
StoreRows(arr, start, stop, rows) ==
    IF arr = BroadcastError \/ ~SliceFits(arr, start, stop, rows)
    THEN BroadcastError
    ELSE SliceAssign(arr, start, stop, rows)

\* arr[rows, cols] = value; a row nothing was written to keeps cells that
\* hold anything.
SetCells(arr, rows, cols, value) ==
    IF arr = BroadcastError THEN arr ELSE
    [i \in DOMAIN arr |->
        IF i \in rows /\ arr[i] # Uninit
        THEN [j \in Corners |-> IF j \in cols THEN value ELSE arr[i][j]]
        ELSE arr[i]]

\* Mutant: the wrap-around correction is not applied.
SubCells_none(arr, rows, cols, delta) == arr

\* arr[rows, cols] -= delta; a cell that holds anything still does.
SubCells(arr, rows, cols, delta) ==
    IF arr = BroadcastError THEN arr ELSE
    [i \in DOMAIN arr |->
        IF i \in rows /\ arr[i] # Uninit
        THEN [j \in Corners |->
                IF j \in cols THEN arr[i][j] - delta ELSE arr[i][j]]
        ELSE arr[i]]

\* Lines 49-72: the triangles, statement by statement.
create_sphere_triangles(Np, Nt) ==
    LET P == phi_size(Np)
        nv == num_vertices(Np, Nt)
        nt == num_triangles(Np, Nt)
        mhs == P * (theta_size(Nt) - 1)
        top == P * (theta_size(Nt) - 1) + 1
        t0 == empty(nt)
        \* South pole (lines 52-55)
        t1 == StoreRows(t0, 0, P, ArchetypeRows(Face(0, 2, 1), P))
        t2 == SetCells(t1, RowRange(nt, 0, P, 1), {0}, 0)
        t3 == SubCells(t2, {P - 1}, {1}, P)
        \* Middle part low (lines 58-61)
        t4 == StoreRows(t3, P, P + mhs,
                        ArchetypeRows(Face(1 + P, 1, 2), mhs))
        t5 == SubCells(t4, RowRange(nt, 2 * P - 1, P + mhs, P), {2}, P)
        \* Middle part high (lines 64-66)
        t6 == StoreRows(t5, P + mhs, P + 2 * mhs,
                        ArchetypeRows(Face(1 + P, 2, 2 + P), mhs))
        t7 == SubCells(t6, RowRange(nt, 2 * P + mhs - 1, P + 2 * mhs, P),
                       {1, 2}, P)
        \* North pole (lines 69-72)
        t8 == StoreRows(t7, NegStart(nt, P), nt,
                        ArchetypeRows(Face(top, top + 1, top + P), P))
        t9 == SetCells(t8, RowRange(nt, NegStart(nt, P), nt, 1), {2}, nv - 1)
        t10 == SubCells(t9, {nt - 1}, {1}, P)
    IN  t10


----------------------------------------------------------------------------

\* Lines 196-219: the masks, the counts, the allocations, the identity table.
\* np.isclose of line 198 raises ValueError on shapes that do not broadcast;
\* vertices_mask[faces] of line 202 raises IndexError on a stray face index.
Classify ==
    /\ pc = "start"
    /\ LET vm == IF mask_arg = None
                 THEN difference_mask(verticesA, verticesB, rtol, atol)
                 ELSE mask_arg
           fm == get_inside_faces_mask(faces, vm, TRUE)
           bfm == get_border_faces_mask(faces, vm)
           obvm == get_border_vertices_mask(faces, vm, bfm, TRUE)
       IN  IF /\ mask_arg = None => ArraysBroadcastable(verticesA, verticesB)
              /\ FacesIndexable(faces, vm)
           THEN /\ vertices_mask' = vm
                /\ faces_mask' = fm
                /\ border_faces_mask' = bfm
                /\ outside_border_vertices_mask' = obvm
                /\ diff_vertices' = empty(diff_vertices_rows(obvm, vm))
                /\ diff_faces' = empty(diff_faces_rows(fm))
                /\ vertices_id_map' = arange(Len(verticesA))
                /\ mask_arg' =
                      IF /\ mask_arg # None
                         /\ full_like_buffer("vertices_mask") = "vertices_mask"
                      THEN obvm ELSE mask_arg
                /\ pc' = "classified"
           ELSE /\ pc' = "error"
                /\ UNCHANGED <<locals, mask_arg>>
    /\ UNCHANGED <<inputs_but_mask, ret, returned_in, pair>>

\* Lines 221-223: renumbering vertices of the outside border.
AnchorPass ==
    /\ pc = "classified"
    /\ LET rows == Compress(verticesA, outside_border_vertices_mask)
       IN  IF /\ MaskFits(vertices_id_map, outside_border_vertices_mask)
              /\ MaskFits(verticesA, outside_border_vertices_mask)
              /\ SliceFits(diff_vertices, 0, outside_border_vertices_cnt, rows)
           THEN /\ vertices_id_map' =
                      Scatter(vertices_id_map, outside_border_vertices_mask,
                              arange(outside_border_vertices_cnt))
                /\ diff_vertices' =
                      SliceAssign(diff_vertices, 0,
                                  outside_border_vertices_cnt, rows)
                /\ pc' = "anchored"
           ELSE /\ pc' = "error"
                /\ UNCHANGED <<vertices_id_map, diff_vertices>>
    /\ UNCHANGED <<inputs, ret, returned_in, pair, vertices_mask, faces_mask,
                   border_faces_mask, outside_border_vertices_mask,
                   diff_faces>>

\* Mutant: the masked vertices are numbered from 0.
Renumber_nobase(table, base) ==
    Scatter(table, vertices_mask, arange(vertices_cnt))

\* vertices_id_map[vertices_mask] = base + np.arange(vertices_cnt)
Renumber(table, base) ==
    Scatter(table, vertices_mask,
            [r \in 0..(vertices_cnt - 1) |-> base + r])

\* Lines 225-228: inserting front faces.
FrontPass ==
    /\ pc = "anchored"
    /\ LET table == Renumber(vertices_id_map, outside_border_vertices_cnt)
           rows == Compress(verticesA, vertices_mask)
           frows == Remap(table, SelectedFaces(FALSE))
           lo == outside_border_vertices_cnt
           hi == outside_border_vertices_cnt + vertices_cnt
       IN  IF /\ MaskFits(vertices_id_map, vertices_mask)
              /\ MaskFits(verticesA, vertices_mask)
              /\ FacesIndexable(faces, table)
              /\ SliceFits(diff_vertices, lo, hi, rows)
              /\ SliceFits(diff_faces, 0, faces_cnt, frows)
           THEN /\ vertices_id_map' = table
                /\ diff_vertices' = SliceAssign(diff_vertices, lo, hi, rows)
                /\ diff_faces' = SliceAssign(diff_faces, 0, faces_cnt, frows)
                /\ pc' = "front"
           ELSE /\ pc' = "error"
                /\ UNCHANGED <<vertices_id_map, diff_vertices, diff_faces>>
    /\ UNCHANGED <<inputs, ret, returned_in, pair, vertices_mask, faces_mask,
                   border_faces_mask, outside_border_vertices_mask>>

\* Lines 230-235: inserting back faces with flipped triangles, and return.
BackPass ==
    /\ pc = "front"
    /\ LET table == Renumber(vertices_id_map,
                             outside_border_vertices_cnt + vertices_cnt)
           rows == Compress(verticesB, vertices_mask)
           frows == Remap(table, SelectedFaces(TRUE))
           vlo == NegStart(Len(diff_vertices), vertices_cnt)
           flo == NegStart(Len(diff_faces), faces_cnt)
       IN  IF /\ MaskFits(vertices_id_map, vertices_mask)
              /\ MaskFits(verticesB, vertices_mask)
              /\ SliceFits(diff_vertices, vlo, Len(diff_vertices), rows)
              /\ ColsFit(ColsOf(verticesA), verticesB)
              /\ SliceFits(diff_faces, flo, Len(diff_faces), frows)
           THEN /\ vertices_id_map' = table
                /\ diff_vertices' =
                      SliceAssign(diff_vertices, vlo, Len(diff_vertices),
                                  Widen(ColsOf(verticesA), rows))
                /\ diff_faces' =
                      SliceAssign(diff_faces, flo, Len(diff_faces), frows)
                /\ returned_in' = {empty_buffer}
                /\ pc' = "done"
           ELSE /\ pc' = "error"
                /\ UNCHANGED <<vertices_id_map, diff_vertices, diff_faces,
                               returned_in>>
    /\ UNCHANGED <<inputs, ret, pair, vertices_mask, faces_mask,
                   border_faces_mask, outside_border_vertices_mask>>

----------------------------------------------------------------------------
(* The classifiers called on their own, with the mask given. *)

Call_get_border_faces_mask ==
    /\ pc = "start"
    /\ mask_arg # None
    /\ ret' = [fn |-> "get_border_faces_mask", flag |-> FALSE,
               value |-> IF FacesIndexable(faces, mask_arg)
                         THEN get_border_faces_mask(faces, mask_arg)
                         ELSE IndexError]
    /\ returned_in' = IF FacesIndexable(faces, mask_arg)
                      THEN {ufunc_buffer("vertices_mask")} ELSE {}
    /\ pc' = "returned"
    /\ UNCHANGED <<inputs, locals, pair>>

Call_get_inside_faces_mask ==
    /\ pc = "start"
    /\ mask_arg # None
    /\ \E border \in BOOLEAN :
        ret' = [fn |-> "get_inside_faces_mask", flag |-> border,
                value |-> IF FacesIndexable(faces, mask_arg)
                          THEN get_inside_faces_mask(faces, mask_arg, border)
                          ELSE IndexError]
    /\ returned_in' = IF FacesIndexable(faces, mask_arg)
                      THEN {ufunc_buffer("vertices_mask")} ELSE {}
    /\ pc' = "returned"
    /\ UNCHANGED <<inputs, locals, pair>>

Call_get_border_vertices_mask ==
    /\ pc = "start"
    /\ mask_arg # None
    /\ \E outside \in BOOLEAN :
        IF FacesIndexable(faces, mask_arg)
        THEN \E bfm \in {None, get_border_faces_mask(faces, mask_arg)} :
                LET result == get_border_vertices_mask(faces, mask_arg, bfm,
                                                       outside)
                    buffer == full_like_buffer("vertices_mask")
                IN  /\ ret' = [fn |-> "get_border_vertices_mask",
                               flag |-> outside, value |-> result]
                    /\ returned_in' = {buffer}
                    \* line 165 writes into that buffer
                    /\ mask_arg' = IF buffer = "vertices_mask"
                                   THEN result ELSE mask_arg
        ELSE /\ ret' = [fn |-> "get_border_vertices_mask", flag |-> outside,
                        value |-> IndexError]
             /\ returned_in' = {}
             /\ UNCHANGED mask_arg
    /\ pc' = "returned"
    /\ UNCHANGED <<inputs_but_mask, locals, pair>>

\* displace_vertices called on its own.
Call_displace_vertices ==
    /\ pc = "displace"
    /\ ret' = [fn |-> "displace_vertices", flag |-> FALSE,
               value |-> displace_vertices_nd(Array2(verticesA),
                            Array2(directions), length, MaskArray(mask_arg))]
    /\ returned_in' = {ufunc_buffer("vertices")}
    /\ pc' = "returned"
    /\ UNCHANGED <<inputs, locals, pair>>

\* create_sphere: the number of vertices and the triangles it returns.
Call_create_sphere ==
    /\ pc = "sphere"
    /\ ret' = [fn |-> "create_sphere", flag |-> FALSE,
               value |-> [n |-> num_vertices(Nphi, Ntheta),
                          faces |-> create_sphere_triangles(Nphi, Ntheta)]]
    /\ returned_in' = {empty_buffer}
    /\ pc' = "returned"
    /\ UNCHANGED <<inputs, locals, pair>>

Next ==
    \/ Classify
    \/ AnchorPass
    \/ FrontPass
    \/ BackPass
    \/ Call_get_border_faces_mask
    \/ Call_get_inside_faces_mask
    \/ Call_get_border_vertices_mask
    \/ Call_displace_vertices
    \/ Call_create_sphere

Spec == Init /\ [][Next]_vars

----------------------------------------------------------------------------
(* Two calls of get_boolean_difference in flight.  The variables of a call  *)
(* hold the frame of the call that is running; calls.frames keeps the frame *)
(* of the call that is waiting; Switch hands the processor over between two *)
(* steps.                                                                    *)

\* Mutant: the remap table is one table of the module.
TableOf_shared(k) == 1

\* Line 219: vertices_id_map is a local of the call, one table per call.
TableOf(k) == k

Other(k) == IF k = 1 THEN 2 ELSE 1

\* The meshes of the two calls.
PairMeshes == {Tetrahedron, Quad, Pillow}

\* The arguments and locals of a call on this mesh about to start, for every
\* mask.
StartFramesOf(mesh) ==
    {[verticesA |-> BaseVertices(mesh.n),
      verticesB |-> displace_vertices(BaseVertices(mesh.n),
                                      BaseNormals(mesh.n), 1, m),
      faces |-> mesh.faces,
      mask_arg |-> m,
      rtol |-> 0,
      atol |-> 0,
      pc |-> "start",
      vertices_mask |-> None,
      faces_mask |-> None,
      border_faces_mask |-> None,
      outside_border_vertices_mask |-> None,
      diff_vertices |-> None,
      diff_faces |-> None,
      returned_in |-> {}] : m \in [0..(mesh.n - 1) -> BOOLEAN]}

StartFrames == UNION {StartFramesOf(mesh) : mesh \in PairMeshes}

\* The frame of the running call, without its remap table.
CurrentFrame ==
    [verticesA |-> verticesA,
     verticesB |-> verticesB,
     faces |-> faces,
     mask_arg |-> mask_arg,
     rtol |-> rtol,
     atol |-> atol,
     pc |-> pc,
     vertices_mask |-> vertices_mask,
     faces_mask |-> faces_mask,
     border_faces_mask |-> border_faces_mask,
     outside_border_vertices_mask |-> outside_border_vertices_mask,
     diff_vertices |-> diff_vertices,
     diff_faces |-> diff_faces,
     returned_in |-> returned_in]

InitPair ==
    /\ \E f1 \in StartFrames, f2 \in StartFrames :
        /\ calls = [running |-> 1, frames |-> [k \in {1, 2} |->
                                                IF k = 1 THEN f1 ELSE f2]]
        /\ verticesA = f1.verticesA
        /\ verticesB = f1.verticesB
        /\ faces = f1.faces
        /\ mask_arg = f1.mask_arg
        /\ rtol = f1.rtol
        /\ atol = f1.atol
        /\ pc = f1.pc
        /\ vertices_mask = f1.vertices_mask
        /\ faces_mask = f1.faces_mask
        /\ border_faces_mask = f1.border_faces_mask
        /\ outside_border_vertices_mask = f1.outside_border_vertices_mask
        /\ diff_vertices = f1.diff_vertices
        /\ diff_faces = f1.diff_faces
        /\ returned_in = f1.returned_in
    /\ tables = [t \in {TableOf(1), TableOf(2)} |-> None]
    /\ vertices_id_map = None
    /\ directions = None
    /\ length = NoArray
    /\ NoSphere
    /\ ret = NoReturn

\* The running call is suspended between two steps and the other resumes.
Switch ==
    /\ calls.running # 0
    /\ LET k == calls.running
           o == Other(calls.running)
           saved == [tables EXCEPT ![TableOf(k)] = vertices_id_map]
           f == calls.frames[o]
       IN  /\ calls' = [running |-> o,
                        frames |-> [calls.frames EXCEPT ![k] = CurrentFrame]]
           /\ tables' = saved
           /\ vertices_id_map' = saved[TableOf(o)]
           /\ verticesA' = f.verticesA
           /\ verticesB' = f.verticesB
           /\ faces' = f.faces
           /\ mask_arg' = f.mask_arg
           /\ rtol' = f.rtol
           /\ atol' = f.atol
           /\ pc' = f.pc
           /\ vertices_mask' = f.vertices_mask
           /\ faces_mask' = f.faces_mask
           /\ border_faces_mask' = f.border_faces_mask
           /\ outside_border_vertices_mask' = f.outside_border_vertices_mask
           /\ diff_vertices' = f.diff_vertices
           /\ diff_faces' = f.diff_faces
           /\ returned_in' = f.returned_in
    /\ UNCHANGED <<directions, length, Nphi, Ntheta, ret>>

NextPair ==
    \/ Classify
    \/ AnchorPass
    \/ FrontPass
    \/ BackPass
    \/ Switch

SpecPair == InitPair /\ [][NextPair]_vars

----------------------------------------------------------------------------
(* Properties. *)

\* get_boolean_difference has returned.
Returned == pc = "done"

\* The anchors recomputed from the inputs and the mask used.
anchorMask == get_border_vertices_mask(faces, vertices_mask, None, TRUE)
\* The selected faces recomputed from the inputs and the mask used.
faceMask == get_inside_faces_mask(faces, vertices_mask, TRUE)

\* The face array holds an index outside 0..n-1.
StrayFaceIndex ==
    \E f \in DOMAIN faces : \E j \in Corners :
        faces[f][j] < 0 \/ faces[f][j] >= Len(verticesA)

\* The mask given, verticesA and verticesB disagree in length or in width.
ShapeMismatch ==
    \/ mask_arg # None /\ Len(mask_arg) # Len(verticesA)
    \/ Len(verticesB) # Len(verticesA)
    \/ ColsOf(verticesB) # ColsOf(verticesA)

\* The inputs are a mesh: a face array over 0..n-1, and arrays that agree in
\* shape.
WellFormed == faces # None /\ ~StrayFaceIndex /\ ~ShapeMismatch

\* C1: on a mesh with in-range face indices get_boolean_difference raises no
\* error, and the arrays it returns have |anchorMask| + 2*|vertexMask| vertex
\* rows and 2*|faceMask| face rows.
C1_SizeInvariant ==
    (pc \in {"error", "done"} /\ WellFormed) =>
        /\ pc # "error"
        /\ Returned =>
            /\ Len(diff_vertices)
                    = MaskSum(anchorMask) + 2 * MaskSum(vertices_mask)
            /\ Len(diff_faces) = 2 * MaskSum(faceMask)

\* A call has returned a shell with an anchor, two masked vertices and a face.
C1_Witness ==
    /\ Returned
    /\ MaskSum(anchorMask) >= 1
    /\ MaskSum(vertices_mask) >= 2
    /\ Len(diff_vertices) >= 5
    /\ Len(diff_faces) >= 2

\* C2 as claimed: every back face is, id for id, the front face reversed.
C2_ExactReverse ==
    Returned =>
        \A i \in 0..(faces_cnt - 1) : \A j \in Corners :
            diff_faces[i + faces_cnt][j] = diff_faces[i][arity - 1 - j]

\* C2 as amended: every back face is the front face reversed, an anchor id
\* kept and a front-copy id replaced by the back-copy id of the same vertex
\* (the front-copy id plus |vertexMask|).
C2_ReverseUpToCopy ==
    Returned =>
        \A i \in 0..(faces_cnt - 1) : \A j \in Corners :
            LET front == diff_faces[i][arity - 1 - j]
                back == diff_faces[i + faces_cnt][j]
            IN  IF front < outside_border_vertices_cnt
                THEN back = front
                ELSE back = front + vertices_cnt

\* A returned shell has a face with an anchor corner followed by a masked one.
C2_Witness ==
    /\ Returned
    /\ \E i \in 0..(faces_cnt - 1) :
        /\ diff_faces[i][0] < outside_border_vertices_cnt
        /\ diff_faces[i][1] >= outside_border_vertices_cnt
        /\ diff_faces[i + faces_cnt][1] = diff_faces[i][1] + vertices_cnt

\* C3: no face is both a border face and a fully inside face, whichever of
\* the two classifiers was called.
C3_BorderInsideDisjoint ==
    /\ (ret.fn = "get_border_faces_mask" /\ WellFormed) =>
        \A f \in DOMAIN faces :
            ~(ret.value[f] /\ get_inside_faces_mask(faces, mask_arg, FALSE)[f])
    /\ (ret.fn = "get_inside_faces_mask" /\ ~ret.flag /\ WellFormed) =>
        \A f \in DOMAIN faces :
            ~(ret.value[f] /\ get_border_faces_mask(faces, mask_arg)[f])

\* get_border_faces_mask returned for a mesh with a border face and a fully
\* inside face.
C3_Witness ==
    /\ WellFormed
    /\ ret.fn = "get_border_faces_mask"
    /\ \E f \in DOMAIN faces : ret.value[f]
    /\ \E f \in DOMAIN faces : get_inside_faces_mask(faces, mask_arg, FALSE)[f]

\* C4: get_inside_faces_mask with border=True is, face by face, the union of
\* get_inside_faces_mask with border=False and get_border_faces_mask.
C4_InsideWithBorderIsUnion ==
    (ret.fn = "get_inside_faces_mask" /\ ret.flag /\ WellFormed) =>
        \A f \in DOMAIN faces :
            ret.value[f] <=>
                (get_inside_faces_mask(faces, mask_arg, FALSE)[f]
                 \/ get_border_faces_mask(faces, mask_arg)[f])

\* get_inside_faces_mask(border=True) returned for a mesh with a border face,
\* a fully inside face and a face outside.
C4_Witness ==
    /\ WellFormed
    /\ ret.fn = "get_inside_faces_mask"
    /\ ret.flag
    /\ \E f \in DOMAIN faces : get_border_faces_mask(faces, mask_arg)[f]
    /\ \E f \in DOMAIN faces : get_inside_faces_mask(faces, mask_arg, FALSE)[f]

\* The other variant of a returned get_border_vertices_mask call.
OtherBorderVertices ==
    get_border_vertices_mask(faces, mask_arg, None, ~ret.flag)

\* Vertex v is referenced by some border face.
OnBorderFace(v) ==
    \E f \in DOMAIN faces : \E j \in Corners :
        get_border_faces_mask(faces, mask_arg)[f] /\ faces[f][j] = v

\* C5: the outside and inside border vertex masks are disjoint, and their
\* union is the set of vertices referenced by a border face.
C5_BorderVerticesPartition ==
    (ret.fn = "get_border_vertices_mask" /\ WellFormed) =>
        \A v \in DOMAIN mask_arg :
            /\ ~(ret.value[v] /\ OtherBorderVertices[v])
            /\ (ret.value[v] \/ OtherBorderVertices[v]) <=> OnBorderFace(v)

\* get_border_vertices_mask(outside=True) returned anchors, for a mesh that
\* also has inside border vertices and a vertex on no border face.
C5_Witness ==
    /\ WellFormed
    /\ ret.fn = "get_border_vertices_mask"
    /\ ret.flag
    /\ \E v \in DOMAIN mask_arg : ret.value[v]
    /\ \E v \in DOMAIN mask_arg : OtherBorderVertices[v]
    /\ \E v \in DOMAIN mask_arg : ~OnBorderFace(v)

\* get_boolean_difference has returned for the unit tetrahedron with exactly
\* one vertex masked.
TetrahedronOneMasked ==
    /\ Returned
    /\ faces = Tetrahedron.faces
    /\ Len(verticesA) = Tetrahedron.n
    /\ MaskSum(vertices_mask) = 1

\* C6 as claimed: all 4 faces are selected, all 4 are border faces, and 8
\* faces are returned.
C6_TetrahedronAllFaces ==
    TetrahedronOneMasked =>
        /\ \A f \in DOMAIN faces : faces_mask[f] /\ border_faces_mask[f]
        /\ Len(diff_faces) = 8

\* C6 as amended: the selected faces and the border faces are both exactly
\* the 3 faces that contain the masked vertex, and 6 faces are returned.
C6_TetrahedronThreeFaces ==
    TetrahedronOneMasked =>
        /\ \A f \in DOMAIN faces :
            /\ faces_mask[f] <=> \E j \in Corners : vertices_mask[faces[f][j]]
            /\ border_faces_mask[f] <=> faces_mask[f]
        /\ MaskSum(faces_mask) = 3
        /\ MaskSum(border_faces_mask) = 3
        /\ Len(diff_faces) = 6

\* The tetrahedron call has returned with vertex 0 masked.
C6_Witness == TetrahedronOneMasked /\ vertices_mask[0] /\ ~faces_mask[3]

\* C7: on the tetrahedron with one vertex masked the anchors are exactly the
\* 3 other vertices and 5 vertices are returned.
C7_TetrahedronAnchors ==
    TetrahedronOneMasked =>
        /\ \A v \in DOMAIN vertices_mask :
            outside_border_vertices_mask[v] <=> ~vertices_mask[v]
        /\ outside_border_vertices_cnt = 3
        /\ Len(diff_vertices) = 5

\* The tetrahedron call has returned with vertex 3 masked.
C7_Witness ==
    /\ TetrahedronOneMasked
    /\ vertices_mask[3]
    /\ outside_border_vertices_mask[0]

\* C8: with vertices_mask omitted and verticesA equal to verticesB, the call
\* raises no error and returns 0 vertices and 0 faces.
C8_IdenticalGivesEmpty ==
    (mask_arg = None /\ verticesA = verticesB) =>
        /\ pc # "error"
        /\ Returned => (Len(diff_vertices) = 0 /\ Len(diff_faces) = 0)

\* Such a call has returned, for a mesh that has faces.
C8_Witness ==
    /\ mask_arg = None
    /\ verticesA = verticesB
    /\ Returned
    /\ Len(faces) >= 2
    /\ Len(diff_vertices) = 0

\* Vertex i moves by exactly delta along one axis and not at all along the
\* others.
DiffersBy(i, delta) ==
    \E j \in Axes :
        /\ Abs(verticesA[i][j] - verticesB[i][j]) = delta
        /\ \A h \in Axes \ {j} : verticesA[i][h] = verticesB[i][h]

\* The mask has been derived from the vertices of a well-formed call.
MaskDerived ==
    /\ mask_arg = None
    /\ pc \in {"classified", "anchored", "front", "done"}
    /\ WellFormed

\* C9: with rtol = 0 and the mask derived, a vertex whose positions differ by
\* exactly atol is unmasked and a vertex whose positions differ, by 2*atol,
\* is masked.
C9_ToleranceScenario ==
    (MaskDerived /\ rtol = 0) =>
        \A i \in DOMAIN verticesA :
            /\ DiffersBy(i, atol) => ~vertices_mask[i]
            /\ (DiffersBy(i, 2 * atol) /\ verticesA[i] # verticesB[i])
                    => vertices_mask[i]

\* The scenario itself: vertex 0 is off by atol, vertex 1 by 2*atol.
C9_Witness ==
    /\ MaskDerived
    /\ Returned
    /\ rtol = 0
    /\ atol > 0
    /\ DiffersBy(0, atol)
    /\ DiffersBy(1, 2 * atol)
    /\ ~vertices_mask[0]
    /\ vertices_mask[1]

\* Coordinate j of vertex i is outside the tolerance, which scales with B.
OutsideTolerance(i, j) ==
    Abs(verticesA[i][j] - verticesB[i][j]) > atol + rtol * Abs(verticesB[i][j])

\* C10: the derived mask marks vertex i iff some coordinate j has
\* |A[i][j] - B[i][j]| > atol + rtol*|B[i][j]|.
C10_DerivedMask ==
    MaskDerived =>
        \A i \in DOMAIN verticesA :
            vertices_mask[i] <=> \E j \in Axes : OutsideTolerance(i, j)

\* A vertex is masked on one coordinate alone, and would not be if the
\* tolerance scaled with A; another is unmasked, and would be masked then.
C10_Witness ==
    /\ MaskDerived
    /\ rtol > 0
    /\ \E i \in DOMAIN verticesA :
        /\ vertices_mask[i]
        /\ \E j \in Axes : ~OutsideTolerance(i, j)
        /\ \A j \in Axes :
            Abs(verticesA[i][j] - verticesB[i][j])
                <= atol + rtol * Abs(verticesA[i][j])
    /\ \E i \in DOMAIN verticesA :
        /\ ~vertices_mask[i]
        /\ \E j \in Axes :
            Abs(verticesA[i][j] - verticesB[i][j])
                > atol + rtol * Abs(verticesA[i][j])

\* The length of a displace_vertices call at vertex i, axis j.
LengthAt(i, j) ==
    IF Len(length.shape) = 0 THEN length.at[<<>>]
    ELSE IF Len(length.shape) = 1 THEN length.at[<<i>>]
    ELSE length.at[<<i, j>>]

\* The mask of a displace_vertices call at vertex i, as a factor.
MaskAt(i) == IF mask_arg = MaskTrue \/ mask_arg[i] THEN 1 ELSE 0

\* The (n, d) array displace_vertices documents:
\* vertices[i][j] + length_ij * mask_i * directions[i][j].
DisplacedAsDocumented ==
    Array2([i \in DOMAIN verticesA |->
        [j \in Axes |->
            verticesA[i][j] + LengthAt(i, j) * MaskAt(i) * directions[i][j]]])

\* C11: displace_vertices returns the documented (n, d) array for every
\* documented shape of length (scalar, (n), (n, d)) and either kind of mask.
C11_DisplaceBroadcasts ==
    ret.fn = "displace_vertices" => ret.value = DisplacedAsDocumented

\* What line 46 does deliver: the documented array for a scalar and for an
\* (n) length.
DisplaceLowRankLengths ==
    (ret.fn = "displace_vertices" /\ Len(length.shape) < 2)
        => ret.value = DisplacedAsDocumented

\* For an (n, d) length the call never returns an (n, d) array: it raises, or
\* returns a 3-d array.
DisplaceMatrixLength ==
    (ret.fn = "displace_vertices" /\ Len(length.shape) = 2)
        => (ret.value = ValueError \/ Len(ret.value.shape) = 3)

\* With a scalar length and a per-vertex mask, line 46 is displace_vertices
\* as the callers' vertex arrays have it.
DisplaceAgrees ==
    (ret.fn = "displace_vertices" /\ Len(length.shape) = 0
        /\ mask_arg # MaskTrue)
        => ret.value = Array2(displace_vertices(verticesA, directions,
                                                length.at[<<>>], mask_arg))

\* C12: with a face index outside [0, vertex count), negative ones included,
\* get_boolean_difference never gets past its first use of the faces and
\* every classifier call ends in an error.
C12_StrayIndexFails ==
    (faces # None /\ StrayFaceIndex)
        => /\ pc \in {"start", "error", "returned"}
           /\ (pc = "returned" => ret.value = IndexError)

\* What numpy does: an index beyond -n..n-1 raises IndexError at once.
StrayIndexBeyondWrap ==
    (faces # None /\ ~FacesIndexable(faces, verticesA))
        => /\ pc \in {"start", "error", "returned"}
           /\ (pc = "returned" => ret.value = IndexError)

\* A negative index within -n..-1 is taken from the end, silently: the calls
\* return and get_boolean_difference runs to its end.
NegativeIndexWraps ==
    /\ pc = "done"
    /\ StrayFaceIndex

\* C13: with a mask whose length is not the vertex count, or a verticesB
\* whose shape is not that of verticesA, get_boolean_difference never
\* returns; with such a mask no classifier returns a mask.
C13_MismatchFails ==
    (faces # None /\ ShapeMismatch)
        => /\ pc # "done"
           /\ (pc = "returned" /\ Len(mask_arg) # Len(verticesA))
                => ret.value = IndexError

\* What numpy does reject: a row-count mismatch of mask or verticesB, and a
\* verticesB wider than verticesA, never let get_boolean_difference return.
MismatchRejected ==
    (/\ faces # None
     /\ \/ mask_arg # None /\ Len(mask_arg) # Len(verticesA)
        \/ Len(verticesB) # Len(verticesA)
        \/ ColsOf(verticesB) > ColsOf(verticesA))
        => pc # "done"

\* A verticesB of one column is broadcast over the columns of verticesA: the
\* call returns, every back vertex with its one coordinate repeated.
NarrowBBroadcast ==
    /\ pc = "done"
    /\ ColsOf(verticesB) = 1
    /\ ColsOf(verticesA) = 2
    /\ vertices_cnt >= 1
    /\ \A j \in Axes : diff_vertices[Len(diff_vertices) - 1][j]
            = Compress(verticesB, vertices_mask)[vertices_cnt - 1][0]

\* A classifier returns a mask for a vertex mask longer than the vertex count.
LongMaskClassified ==
    /\ pc = "returned"
    /\ faces # None
    /\ Len(mask_arg) > Len(verticesA)
    /\ ret.value # IndexError

\* The mask used has no true entry / no false entry.
AllFalse(mask) == \A i \in DOMAIN mask : ~mask[i]
AllTrue(mask) == \A i \in DOMAIN mask : mask[i]

\* A vertex mask is given, and it is all false.
EmptyMaskGiven == mask_arg # None /\ AllFalse(mask_arg)

\* C14: with an all-false vertex mask given, whatever verticesB is,
\* get_boolean_difference raises no error and returns 0 vertices and 0 faces.
C14_EmptyMaskGivesEmpty ==
    (pc \in {"error", "done"} /\ WellFormed /\ EmptyMaskGiven) =>
        /\ pc # "error"
        /\ Returned => (Len(diff_vertices) = 0 /\ Len(diff_faces) = 0)

\* Such a call has returned for a mesh with faces and a verticesB that
\* differs from verticesA at every vertex.
C14_Witness ==
    /\ WellFormed
    /\ EmptyMaskGiven
    /\ Returned
    /\ Len(faces) >= 1
    /\ \A i \in DOMAIN verticesA : verticesB[i] # verticesA[i]
    /\ Len(diff_vertices) = 0
    /\ Len(diff_faces) = 0

\* C15: with an all-true mask over n vertices and m faces the shell has no
\* anchor, 2n vertices and 2m faces; output face f (f < m) is input face f
\* with its ids unchanged, and output face m + f is input face f reversed
\* with every id shifted by n.
C15_FullMaskGivesMaximalShell ==
    (Returned /\ WellFormed /\ AllTrue(vertices_mask)) =>
        /\ outside_border_vertices_cnt = 0
        /\ Len(diff_vertices) = 2 * Len(verticesA)
        /\ Len(diff_faces) = 2 * Len(faces)
        /\ \A f \in DOMAIN faces : \A j \in Corners :
            /\ diff_faces[f][j] = faces[f][j]
            /\ diff_faces[Len(faces) + f][j]
                    = faces[f][arity - 1 - j] + Len(verticesA)

\* Such a call has returned for the tetrahedron: 8 vertices, 8 faces.
C15_Witness ==
    /\ WellFormed
    /\ Returned
    /\ AllTrue(vertices_mask)
    /\ faces = Tetrahedron.faces
    /\ Len(diff_vertices) = 8
    /\ Len(diff_faces) = 8
    /\ diff_faces[4][0] = 6

\* A classifier was called on a face array over 0..n-1 with a mask of n
\* entries.
ClassifierCalled ==
    /\ pc = "returned"
    /\ ret.fn \in {"get_border_faces_mask", "get_inside_faces_mask",
                   "get_border_vertices_mask"}
    /\ ~StrayFaceIndex
    /\ Len(mask_arg) = Len(verticesA)

\* C16: on well-formed inputs every classifier returns a boolean mask (one
\* entry per face, or per vertex for get_border_vertices_mask) and no error,
\* and for an all-false vertex mask the mask it returns is all false.
C16_ClassifiersTotal ==
    ClassifierCalled =>
        /\ ret.value # IndexError
        /\ DOMAIN ret.value =
                (IF ret.fn = "get_border_vertices_mask"
                 THEN DOMAIN mask_arg ELSE DOMAIN faces)
        /\ \A i \in DOMAIN ret.value : ret.value[i] \in BOOLEAN
        /\ AllFalse(mask_arg) => AllFalse(ret.value)

\* get_border_faces_mask returned an all-false mask for an all-false vertex
\* mask on a mesh with several faces.
C16_Witness ==
    /\ ClassifierCalled
    /\ ret.fn = "get_border_faces_mask"
    /\ AllFalse(mask_arg)
    /\ Len(faces) >= 2
    /\ AllFalse(ret.value)

\* How many times the directed edge (u, v) occurs among the faces of fcs.
DirectedEdgeCount(fcs, u, v) ==
    Cardinality({p \in (DOMAIN fcs) \X Corners :
        fcs[p[1]][p[2]] = u /\ fcs[p[1]][(p[2] + 1) % arity] = v})

\* How many faces of fcs have the undirected edge {u, v}.
EdgeFaceCount(fcs, u, v) ==
    Cardinality({f \in DOMAIN fcs : \E j \in Corners :
        {fcs[f][j], fcs[f][(j + 1) % arity]} = {u, v}})

\* The ids that end an edge of fcs.
EdgeEnds(fcs) == {fcs[f][j] : f \in DOMAIN fcs, j \in Corners}

\* Closed and consistently oriented: every directed edge of a face occurs
\* once, and its reverse once.
ClosedOriented(fcs) ==
    /\ Len(fcs) > 0
    /\ \A f \in DOMAIN fcs : \A j \in Corners :
        LET u == fcs[f][j]
            v == fcs[f][(j + 1) % arity]
        IN  /\ u # v
            /\ DirectedEdgeCount(fcs, u, v) = 1
            /\ DirectedEdgeCount(fcs, v, u) = 1

\* Every directed edge occurs as often as its reverse.
Balanced(fcs) ==
    \A u \in EdgeEnds(fcs) : \A v \in EdgeEnds(fcs) :
        DirectedEdgeCount(fcs, u, v) = DirectedEdgeCount(fcs, v, u)

\* C17: for a closed, consistently oriented input mesh and every vertex mask,
\* every directed edge of the returned faces occurs as often as its reverse.
C17_ShellClosed ==
    (Returned /\ WellFormed /\ ClosedOriented(faces)) => Balanced(diff_faces)

\* The octahedron with a masked vertex next to an unmasked one has returned
\* a shell with faces.
C17_Witness ==
    /\ WellFormed
    /\ Returned
    /\ faces = Octahedron.faces
    /\ ClosedOriented(faces)
    /\ vertices_mask[0]
    /\ ~vertices_mask[2]
    /\ Len(diff_faces) >= 8
    /\ Balanced(diff_faces)

\* Every undirected edge of a face is shared by exactly two faces.
Manifold(fcs) ==
    \A f \in DOMAIN fcs : \A j \in Corners :
        EdgeFaceCount(fcs, fcs[f][j], fcs[f][(j + 1) % arity]) = 2

\* C18: for a closed manifold input mesh and every vertex mask, every
\* undirected edge of the returned faces is shared by exactly two of them.
C18_ShellManifold ==
    (Returned /\ WellFormed /\ ClosedOriented(faces) /\ Manifold(faces))
        => Manifold(diff_faces)

\* The tetrahedron with vertices 0 and 1 masked: the edge between the anchors
\* 2 and 3 lies on two selected faces, hence on four returned faces.
AnchorEdgeOnFourFaces ==
    /\ Returned
    /\ faces = Tetrahedron.faces
    /\ Manifold(faces)
    /\ vertices_mask[0] /\ vertices_mask[1]
    /\ ~vertices_mask[2] /\ ~vertices_mask[3]
    /\ EdgeFaceCount(diff_faces, vertices_id_map[2], vertices_id_map[3]) = 4

\* The call is the one create_bicolor_mesh and create_bicolor_sphere make:
\* verticesB is displace_vertices(verticesA, normals, length, mask) and the
\* same mask is passed on.
BicolorCall ==
    /\ WellFormed
    /\ mask_arg # None
    /\ directions # None
    /\ verticesB = displace_vertices(verticesA, directions, length.at[<<>>],
                                     mask_arg)

\* C19: in the callers' use, back face i of the shell has, position for
\* position, the displaced positions of the i-th selected face of the
\* displaced mesh taken in reverse order.
C19_BackFacesOnDisplacedSurface ==
    (Returned /\ BicolorCall) =>
        \A i \in 0..(faces_cnt - 1) : \A j \in Corners :
            diff_vertices[diff_faces[faces_cnt + i][j]]
                = verticesB[Compress(faces, faces_mask)[i][arity - 1 - j]]

\* Such a call has returned a back face with an anchor and a back copy, the
\* back copy away from its undisplaced position.
C19_Witness ==
    /\ BicolorCall
    /\ Returned
    /\ \E i \in 0..(faces_cnt - 1) : \E j, k \in Corners :
        /\ diff_faces[faces_cnt + i][j] < outside_border_vertices_cnt
        /\ diff_faces[faces_cnt + i][k]
                >= outside_border_vertices_cnt + vertices_cnt
        /\ diff_vertices[diff_faces[faces_cnt + i][k]]
                # verticesA[Compress(faces, faces_mask)[i][arity - 1 - k]]

\* The output id of vertex v as an anchor, as a front copy, as a back copy.
AnchorId(v) == Rank(outside_border_vertices_mask, v)
FrontId(v) == outside_border_vertices_cnt + Rank(vertices_mask, v)
BackId(v) == outside_border_vertices_cnt + vertices_cnt + Rank(vertices_mask, v)

\* The (vertex, copy) pairs that have output id k.
Owners(k) ==
    {<<v, "anchor">> : v \in {w \in DOMAIN vertices_mask :
            outside_border_vertices_mask[w] /\ AnchorId(w) = k}}
    \cup {<<v, "front">> : v \in {w \in DOMAIN vertices_mask :
            vertices_mask[w] /\ FrontId(w) = k}}
    \cup {<<v, "back">> : v \in {w \in DOMAIN vertices_mask :
            vertices_mask[w] /\ BackId(w) = k}}

\* C20: once written, the remap table gives the anchors 0..|anchors|-1, the
\* front copies the next |mask| ids and the back copies the next |mask| ids,
\* each in increasing original-id order; the returned vertex rows sit at
\* these ids, and every output id has exactly one (vertex, copy) owner.
C20_IdAssignment ==
    (pc \in {"anchored", "front", "done"} /\ WellFormed) =>
        /\ pc \in {"anchored", "front", "done"} =>
            \A v \in DOMAIN vertices_mask :
                outside_border_vertices_mask[v] =>
                    /\ vertices_id_map[v] = AnchorId(v)
                    /\ diff_vertices[AnchorId(v)] = verticesA[v]
        /\ pc = "front" =>
            \A v \in DOMAIN vertices_mask :
                vertices_mask[v] =>
                    /\ vertices_id_map[v] = FrontId(v)
                    /\ diff_vertices[FrontId(v)] = verticesA[v]
        /\ Returned =>
            /\ \A v \in DOMAIN vertices_mask :
                vertices_mask[v] =>
                    /\ vertices_id_map[v] = BackId(v)
                    /\ diff_vertices[FrontId(v)] = verticesA[v]
                    /\ diff_vertices[BackId(v)] = verticesB[v]
            /\ \A k \in DOMAIN diff_vertices : Cardinality(Owners(k)) = 1

\* A call has returned with two anchors and two masked vertices, the masked
\* ones not the first vertices of the mesh.
C20_Witness ==
    /\ WellFormed
    /\ Returned
    /\ outside_border_vertices_cnt >= 2
    /\ vertices_cnt >= 2
    /\ ~vertices_mask[0]
    /\ \E v \in DOMAIN vertices_mask :
        /\ vertices_mask[v]
        /\ vertices_id_map[v] = BackId(v)
        /\ BackId(v) # v

\* anchors ++ front copies ++ back copies: verticesA at the anchors, verticesA
\* at the masked vertices, verticesB at the masked vertices, each group in
\* increasing original-id order.
ConcatenatedVertices ==
    LET a == outside_border_vertices_cnt
        c == vertices_cnt
    IN  [k \in 0..(a + 2 * c - 1) |->
            IF k < a
            THEN Compress(verticesA, outside_border_vertices_mask)[k]
            ELSE IF k < a + c
            THEN Compress(verticesA, vertices_mask)[k - a]
            ELSE Compress(verticesB, vertices_mask)[k - a - c]]

\* C21: the returned vertex array is the concatenation of verticesA at the
\* anchors, verticesA at the masked vertices and verticesB at the masked
\* vertices, and no row of the returned arrays is left as allocated.
C21_VerticesConcatenated ==
    (Returned /\ WellFormed) =>
        /\ diff_vertices = ConcatenatedVertices
        /\ \A k \in DOMAIN diff_vertices : diff_vertices[k] # Uninit
        /\ \A f \in DOMAIN diff_faces : diff_faces[f] # Uninit

\* A call has returned all three groups, the back copies away from the front
\* copies.
C21_Witness ==
    /\ Returned
    /\ WellFormed
    /\ outside_border_vertices_cnt >= 1
    /\ vertices_cnt >= 2
    /\ diff_vertices = ConcatenatedVertices
    /\ diff_vertices[outside_border_vertices_cnt]
            # diff_vertices[outside_border_vertices_cnt + vertices_cnt]

\* Id k is an anchor id, a front-copy id, a back-copy id.
IsAnchorId(k) == 0 <= k /\ k < outside_border_vertices_cnt
IsFrontId(k) ==
    /\ outside_border_vertices_cnt <= k
    /\ k < outside_border_vertices_cnt + vertices_cnt
IsBackId(k) ==
    /\ outside_border_vertices_cnt + vertices_cnt <= k
    /\ k < outside_border_vertices_cnt + 2 * vertices_cnt

\* C22: the front faces are remapped before the table is overwritten with
\* back ids: once written, every front face holds anchor ids and front-copy
\* ids only, and every back face anchor ids and back-copy ids only.
C22_FrontBeforeBack ==
    /\ (pc \in {"front", "done"} /\ WellFormed) =>
        \A i \in 0..(faces_cnt - 1) : \A j \in Corners :
            IsAnchorId(diff_faces[i][j]) \/ IsFrontId(diff_faces[i][j])
    /\ (Returned /\ WellFormed) =>
        \A i \in faces_cnt..(2 * faces_cnt - 1) : \A j \in Corners :
            IsAnchorId(diff_faces[i][j]) \/ IsBackId(diff_faces[i][j])

\* A call has returned a front face with a front-copy id and its back face
\* with the back-copy id, the table now holding the back id.
C22_Witness ==
    /\ Returned
    /\ WellFormed
    /\ \E i \in 0..(faces_cnt - 1) : \E j \in Corners :
        /\ IsFrontId(diff_faces[i][j])
        /\ IsBackId(diff_faces[faces_cnt + i][arity - 1 - j])
        /\ \E v \in DOMAIN vertices_mask :
            /\ vertices_mask[v]
            /\ vertices_id_map[v] = diff_faces[faces_cnt + i][arity - 1 - j]

\* The pure index function: the output id of original vertex v in a pass.
newId(v, pass) ==
    IF outside_border_vertices_mask[v] THEN AnchorId(v)
    ELSE IF pass = "front" THEN FrontId(v)
    ELSE BackId(v)

\* The face array built with newId alone: the selected faces in the front
\* pass, then the selected faces reversed in the back pass.
PureFaces ==
    LET sel == Compress(faces, faces_mask)
    IN  [r \in 0..(2 * faces_cnt - 1) |->
            [j \in Corners |->
                IF r < faces_cnt
                THEN newId(sel[r][j], "front")
                ELSE newId(sel[r - faces_cnt][arity - 1 - j], "back")]]

\* The vertex array built with newId alone: row newId(v, pass) holds the
\* position of v in that pass.
PureVertices ==
    [k \in 0..(outside_border_vertices_cnt + 2 * vertices_cnt - 1) |->
        LET v == CHOOSE w \in DOMAIN vertices_mask :
                    \/ outside_border_vertices_mask[w] /\ AnchorId(w) = k
                    \/ vertices_mask[w] /\ (FrontId(w) = k \/ BackId(w) = k)
        IN  IF IsBackId(k) THEN verticesB[v] ELSE verticesA[v]]

\* C23: the arrays built with the pure index function newId are exactly the
\* arrays get_boolean_difference returns with its mutated remap table.
C23_PureIndexFunction ==
    (Returned /\ WellFormed) =>
        /\ diff_faces = PureFaces
        /\ diff_vertices = PureVertices

\* A call has returned faces with all three kinds of id.
C23_Witness ==
    /\ Returned
    /\ WellFormed
    /\ diff_faces = PureFaces
    /\ \E i \in DOMAIN diff_faces : \E j \in Corners : IsAnchorId(diff_faces[i][j])
    /\ \E i \in DOMAIN diff_faces : \E j \in Corners : IsFrontId(diff_faces[i][j])
    /\ \E i \in DOMAIN diff_faces : \E j \in Corners : IsBackId(diff_faces[i][j])
    /\ faces_cnt >= 2

\* C26: an unmasked vertex on one or more border faces is an anchor with one
\* vertex row, and every front and back face made from a face that references
\* it carries that one id at its corner.
C26_AnchorRecordedOnce ==
    (pc \in {"error", "done"} /\ WellFormed) =>
        /\ pc # "error"
        /\ \A v \in DOMAIN vertices_mask :
            (~vertices_mask[v]
                /\ \E f \in DOMAIN faces : \E j \in Corners :
                        border_faces_mask[f] /\ faces[f][j] = v)
            => /\ outside_border_vertices_mask[v]
               /\ Cardinality({k \in DOMAIN diff_vertices :
                        IsAnchorId(k) /\ vertices_id_map[v] = k}) = 1
               /\ \A i \in 0..(faces_cnt - 1) : \A j \in Corners :
                    Compress(faces, faces_mask)[i][j] = v =>
                        /\ diff_faces[i][j] = vertices_id_map[v]
                        /\ diff_faces[faces_cnt + i][arity - 1 - j]
                                = vertices_id_map[v]
        /\ outside_border_vertices_cnt
                = Cardinality({v \in DOMAIN vertices_mask :
                    ~vertices_mask[v]
                    /\ \E f \in DOMAIN faces : \E j \in Corners :
                            border_faces_mask[f] /\ faces[f][j] = v})

\* The bowtie with vertices 0 and 3 masked: vertex 2 borders both patches
\* and is one of 3 anchors, used by all 4 returned faces.
C26_Witness ==
    /\ Returned
    /\ faces = Bowtie.faces
    /\ vertices_mask[0] /\ vertices_mask[3]
    /\ ~vertices_mask[1] /\ ~vertices_mask[2] /\ ~vertices_mask[4]
    /\ outside_border_vertices_cnt = 3
    /\ \A i \in DOMAIN diff_faces : \E j \in Corners :
        diff_faces[i][j] = vertices_id_map[2]

\* C28: every id of the returned face array is a row of the returned vertex
\* array, and every unmasked corner of a selected face is an anchor.
C28_FaceIdsInRange ==
    (Returned /\ WellFormed) =>
        /\ \A i \in DOMAIN diff_faces : \A j \in Corners :
            diff_faces[i][j] \in 0..(Len(diff_vertices) - 1)
        /\ \A f \in DOMAIN faces : \A j \in Corners :
            (faces_mask[f] /\ ~vertices_mask[faces[f][j]])
                => outside_border_vertices_mask[faces[f][j]]

\* A call has returned fewer vertex rows than the mesh has vertices, with a
\* face whose unmasked corner had an original id beyond the returned rows.
C28_Witness ==
    /\ Returned
    /\ WellFormed
    /\ Len(diff_vertices) < Len(verticesA)
    /\ \E f \in DOMAIN faces : \E j \in Corners :
        /\ faces_mask[f]
        /\ ~vertices_mask[faces[f][j]]
        /\ faces[f][j] >= Len(diff_vertices)

\* verticesB is verticesA at every unmasked vertex.
UnmaskedUnmoved ==
    \A v \in DOMAIN vertices_mask : ~vertices_mask[v] => verticesB[v] = verticesA[v]

\* C29: when verticesB is verticesA at every unmasked vertex, front face i
\* has the verticesA positions of the i-th selected face, corner by corner,
\* and back face i its verticesB positions in reverse order.
C29_FaceGeometryPreserved ==
    (Returned /\ WellFormed /\ UnmaskedUnmoved) =>
        \A i \in 0..(faces_cnt - 1) : \A j \in Corners :
            LET F == Compress(faces, faces_mask)[i]
            IN  /\ diff_vertices[diff_faces[i][j]] = verticesA[F[j]]
                /\ diff_vertices[diff_faces[faces_cnt + i][j]]
                        = verticesB[F[arity - 1 - j]]

\* Such a call has returned with the mask derived, a face with a moved and an
\* unmoved corner.
C29_Witness ==
    /\ Returned
    /\ WellFormed
    /\ UnmaskedUnmoved
    /\ mask_arg = None
    /\ \E i \in 0..(faces_cnt - 1) : \E j, k \in Corners :
        /\ diff_vertices[diff_faces[i][j]]
                # diff_vertices[diff_faces[faces_cnt + i][arity - 1 - j]]
        /\ diff_vertices[diff_faces[i][k]]
                = diff_vertices[diff_faces[faces_cnt + i][arity - 1 - k]]

\* displace_vertices has returned an array for a per-vertex mask.
DisplacedWithMask ==
    /\ ret.fn = "displace_vertices"
    /\ mask_arg # MaskTrue
    /\ ret.value # ValueError

\* The returned array is (n, d) and holds the input position of every
\* unmasked vertex.
UnmaskedInPlace ==
    /\ ret.value.shape = <<Len(verticesA), Cardinality(Axes)>>
    /\ \A i \in DOMAIN verticesA : \A j \in Axes :
        ~mask_arg[i] => ret.value.at[<<i, j>>] = verticesA[i][j]

\* C25: with a per-vertex mask, whatever the length and the directions, the
\* array displace_vertices returns has every unmasked vertex at its input
\* position.
C25_UnmaskedStay == DisplacedWithMask => UnmaskedInPlace

\* What line 46 does deliver: unmasked vertices stay for a scalar and for an
\* (n) length.
UnmaskedStayLowRank ==
    (DisplacedWithMask /\ Len(length.shape) < 2) => UnmaskedInPlace

\* With n = d and an (n, d) length the mask is multiplied along the axes:
\* the call returns a 3-d array in which an unmasked vertex has moved.
MaskAppliedToAxes ==
    /\ DisplacedWithMask
    /\ Len(length.shape) = 2
    /\ Len(ret.value.shape) = 3
    /\ \E i, k \in DOMAIN verticesA : \E j \in Axes :
        /\ ~mask_arg[k]
        /\ ret.value.at[<<i, k, j>>] # verticesA[k][j]

\* create_sphere has returned.
SphereReturned == ret.fn = "create_sphere"

\* C30: for Nphi >= 3 and Ntheta >= 3, create_sphere returns
\* Nphi*(Ntheta-2)+2 vertices and 2*Nphi*(Ntheta-2) triangles; every triangle
\* index is a vertex, and every directed edge of a triangle occurs once and
\* its reverse once.
C30_SphereClosed ==
    (SphereReturned /\ Nphi >= 3 /\ Ntheta >= 3) =>
        /\ ret.value.n = Nphi * (Ntheta - 2) + 2
        /\ Len(ret.value.faces) = 2 * Nphi * (Ntheta - 2)
        /\ \A f \in DOMAIN ret.value.faces :
            /\ ret.value.faces[f] # Uninit
            /\ \A j \in Corners :
                ret.value.faces[f][j] \in 0..(ret.value.n - 1)
        /\ ClosedOriented(ret.value.faces)

\* create_sphere(4, 4) has returned 10 vertices and 16 triangles, south and
\* north caps and both halves of the middle band.
C30_Witness ==
    /\ SphereReturned
    /\ Nphi = 4
    /\ Ntheta = 4
    /\ ret.value.n = 10
    /\ Len(ret.value.faces) = 16
    /\ ret.value.faces[3] = Face(0, 1, 4)
    /\ ret.value.faces[7] = Face(8, 4, 1)
    /\ ret.value.faces[11] = Face(8, 1, 5)
    /\ ret.value.faces[15] = Face(8, 5, 9)

\* C24: no step of get_boolean_difference, get_border_faces_mask,
\* get_inside_faces_mask, get_border_vertices_mask or displace_vertices
\* changes an argument, and the arrays returned live in buffers allocated by
\* the call, never in the buffer of an argument.
C24_InputsUntouched ==
    [][UNCHANGED inputs /\ returned_in' \subseteq {Fresh}]_vars

\* get_border_vertices_mask has returned a mask that differs from the mask it
\* was given, in a buffer of its own, and the given mask is what it was.
C24_Witness ==
    /\ pc = "returned"
    /\ ret.fn = "get_border_vertices_mask"
    /\ ret.value # IndexError
    /\ returned_in = {Fresh}
    /\ mask_arg # None
    /\ ret.value # mask_arg
    /\ MaskSum(ret.value) > 0

\* The call that is running has returned while the other call is in flight
\* or has returned.
PairReturned == calls.running # 0 /\ pc = "done"

\* C27: with the steps of two calls of get_boolean_difference interleaved in
\* any order, a call that returns has built exactly the arrays it builds when
\* it runs alone, the arrays of the pure index function of its own arguments.
C27_InterleavedAsAlone ==
    PairReturned =>
        /\ diff_faces = PureFaces
        /\ diff_vertices = PureVertices

\* A call on the tetrahedron has returned faces while a call on the quad,
\* started after it, is suspended between its front pass and its back pass.
C27_Witness ==
    /\ PairReturned
    /\ calls.running = 1
    /\ calls.frames[2].pc = "front"
    /\ faces = Tetrahedron.faces
    /\ calls.frames[2].faces = Quad.faces
    /\ faces_cnt >= 2
    /\ MaskSum(calls.frames[2].faces_mask) >= 1
    /\ tables[TableOf(2)] # vertices_id_map
    /\ diff_faces = PureFaces

============================================================================
